---- MODULE Spec2Model ----
(***************************************************************************)
(* A model of nmea-logger (src/src/main.rs): the NMEAFile filter, which     *)
(* reads NMEA 0183 sentences line by line, keeps a rolling clock            *)
(* (most_recent_timestamp) from the sentences that carry a time, and prints *)
(* the lines whose sender and message type are selected and whose clock     *)
(* lies in [start_timestamp, end_timestamp].                                *)
(*                                                                          *)
(* Strings are sequences of one-character strings, a timestamp is a         *)
(* chrono NaiveDateTime [date, time]: days since 1970-01-01 and seconds     *)
(* since midnight.  The sentence parser (libnmea0183), the line source and  *)
(* stdout are outside the repository: what they return is an input of each  *)
(* step.                                                                    *)
(***************************************************************************)
EXTENDS Integers, Sequences, FiniteSets, TLC

VARIABLES
    pc,                     \* where main() is: "main", "Reading", "Halted", "exited", "panicked"
    cli,                    \* the parsed command line (struct Cli)
    start_timestamp,        \* NMEAFile fields
    end_timestamp,
    include_devices,
    exclude_devices,
    include_messages,
    exclude_messages,
    most_recent_timestamp,
    terminate_eof,
    terminate_err,
    last,                   \* the last read_line result and what the parser said of it
    applied,                \* the last timestamp a sentence gave the clock, and its kind
    nread,                  \* lines read so far (reads that returned n > 0)
    output,                 \* stdout: the lines printed, each with the number of its input line
    write_failed            \* whether the last write to stdout returned an error

vars == <<pc, cli, start_timestamp, end_timestamp, include_devices, exclude_devices,
          include_messages, exclude_messages, most_recent_timestamp, terminate_eof,
          terminate_err, last, applied, nread, output, write_failed>>

nmeaConfig == <<start_timestamp, end_timestamp, include_devices, exclude_devices,
                include_messages, exclude_messages, terminate_eof, terminate_err>>

----------------------------------------------------------------------------
(* Bounds *)

\* Lines the model reads (reads that return n > 0) before it stops reading.
MaxReads == 3

----------------------------------------------------------------------------
(* chrono: dates and times *)

\* Days from 1970-01-01 to the civil date y-m-d (proleptic Gregorian).
DaysFromCivil(y, m, d) ==
    LET yy  == IF m <= 2 THEN y - 1 ELSE y
        era == yy \div 400
        yoe == yy - era * 400
        mp  == IF m > 2 THEN m - 3 ELSE m + 9
        doy == (153 * mp + 2) \div 5 + d - 1
        doe == yoe * 365 + yoe \div 4 - yoe \div 100 + doy
    IN  era * 146097 + doe - 719468

\* NaiveTime::from_hms_opt(h, mi, s): seconds since midnight.
Hms(h, mi, s) == (h * 60 + mi) * 60 + s

\* NaiveDateTime::new(date, time).and_utc()
DateTime(date, time) == [date |-> date, time |-> time]

\* DateTime::parse_from_rfc3339("y-m-dTh:mi:sZ").with_timezone(&Utc)
Rfc3339(y, m, d, h, mi, s) == DateTime(DaysFromCivil(y, m, d), Hms(h, mi, s))

\* Ord of DateTime<Utc>: by date, then by time of day.
Before(a, b) == a.date < b.date \/ (a.date = b.date /\ a.time < b.time)
AtOrBefore(a, b) == a = b \/ Before(a, b)

\* NaiveDate::checked_add_days(Days::new(n)).unwrap()
AddDays(date, n) == date + n

----------------------------------------------------------------------------
(* regex: the subset of the syntax the patterns of the model use: literal   *)
(* characters, ".", a postfix "*", "^" first, "$" last, and an alternation  *)
(* of parenthesised groups as create_regex writes it.  is_match searches:   *)
(* the pattern may match anywhere in the text.                              *)

RECURSIVE MatchHere(_, _), MatchStar(_, _, _)
MatchHere(re, text) ==
    IF re = <<>> THEN TRUE
    ELSE IF Len(re) >= 2 /\ re[2] = "*" THEN MatchStar(re[1], Tail(Tail(re)), text)
    ELSE IF re[1] = "$" /\ Len(re) = 1 THEN text = <<>>
    ELSE IF text # <<>> /\ (re[1] = "." \/ re[1] = text[1])
         THEN MatchHere(Tail(re), Tail(text))
    ELSE FALSE

MatchStar(c, re, text) ==
    \/ MatchHere(re, text)
    \/ /\ text # <<>>
       /\ (c = "." \/ c = text[1])
       /\ MatchStar(c, re, Tail(text))

\* One alternative, searched for in text.
MatchAnywhere(re, text) ==
    IF re # <<>> /\ re[1] = "^"
    THEN MatchHere(Tail(re), text)
    ELSE \E i \in 1..(Len(text) + 1) : MatchHere(re, SubSeq(text, i, Len(text)))

\* The alternatives of a regex: its parts between top-level "|".
RECURSIVE Alternatives(_)
Alternatives(re) ==
    IF \E i \in 1..Len(re) : re[i] = "|"
    THEN LET i == CHOOSE k \in 1..Len(re) :
                      re[k] = "|" /\ \A j \in 1..(k - 1) : re[j] # "|"
         IN  <<SubSeq(re, 1, i - 1)>> \o Alternatives(SubSeq(re, i + 1, Len(re)))
    ELSE <<re>>

\* "(p)" is the group of p.
Ungroup(alt) ==
    IF Len(alt) >= 2 /\ alt[1] = "(" /\ alt[Len(alt)] = ")"
    THEN SubSeq(alt, 2, Len(alt) - 1)
    ELSE alt

\* Regex::is_match
is_match(re, text) ==
    LET alts == Alternatives(re)
    IN  \E k \in 1..Len(alts) : MatchAnywhere(Ungroup(alts[k]), text)

----------------------------------------------------------------------------
(* Option<T> *)

None == [some |-> FALSE, list |-> <<>>]
Some(l) == [some |-> TRUE, list |-> l]

\* Option<NaiveTime>, Option<DateTime<Utc>>: what a sentence's timestamp() returns.
NoTimestamp == [some |-> FALSE, date |-> 0, time |-> 0]
SomeTimestamp(ts) == [some |-> TRUE, date |-> ts.date, time |-> ts.time]
SomeTime(t) == [some |-> TRUE, date |-> 0, time |-> t]

----------------------------------------------------------------------------
(* The strings of the model *)

GP == <<"G", "P">>
GL == <<"G", "L">>
II == <<"I", "I">>
RMC == <<"R", "M", "C">>
ZDA == <<"Z", "D", "A">>
GGA == <<"G", "G", "A">>
GSV == <<"G", "S", "V">>

\* The message types process_line gives to update_time_only.
TimeOnlyTypes ==
    { <<"B", "W", "C">>, <<"B", "W", "R">>, <<"G", "B", "S">>, GGA, <<"G", "L", "L">>,
      <<"G", "R", "S">>, <<"G", "S", "T">>, <<"G", "X", "A">>, <<"T", "R", "F">> }

\* The message types whose timestamp() is a full date and time.
FullTypes == { RMC, ZDA }

\* The text of a line is a sequence of pieces: the sentence, which the filter
\* never looks into, is one piece, and each character after it is a piece.
RmcLine == "$GPRMC,123519,A,4807.038,N,01131.000,E,022.4,084.4,230394,003.1,W*6A"
AnyLine == "$..."

----------------------------------------------------------------------------
(* The timestamps of the model *)

DefaultStart == Rfc3339(2000, 1, 1, 0, 0, 0)
DefaultEnd == Rfc3339(2050, 12, 31, 23, 59, 59)

\* 1994-03-23T12:35:19Z, the timestamp of RmcLine.
RmcTime == Rfc3339(1994, 3, 23, 12, 35, 19)

\* A configured window: from WindowStart to WindowEnd.
WindowStart == Rfc3339(2024, 6, 1, 12, 35, 19)
WindowEnd == Rfc3339(2024, 6, 2, 0, 1, 0)

\* Utc::now().date_naive() at construction.
Today == { DaysFromCivil(2024, 6, 1) }

----------------------------------------------------------------------------
(* The command line *)

\* --start, --end: absent, a timestamp, or a string parse_from_rfc3339 rejects.
NoDate == [given |-> FALSE, valid |-> FALSE, date |-> 0, time |-> 0]
BadDate == [given |-> TRUE, valid |-> FALSE, date |-> 0, time |-> 0]
Date(ts) == [given |-> TRUE, valid |-> TRUE, date |-> ts.date, time |-> ts.time]

\* The --start and --end of a run: neither, a window, a window of one instant,
\* a start after the end, and dates that do not parse.
Windows ==
    { <<NoDate, NoDate>>,
      <<Date(WindowStart), Date(WindowEnd)>>,
      <<Date(WindowEnd), Date(WindowEnd)>>,
      <<Date(WindowEnd), Date(WindowStart)>>,
      <<BadDate, NoDate>>,
      <<NoDate, BadDate>> }

\* No list is configured.
NoPatterns ==
    [include_devices |-> None, exclude_devices |-> None,
     include_messages |-> None, exclude_messages |-> None]

\* Each list is absent or configured; or one list is configured and empty.
PatternSets ==
    [ include_devices : { None, Some(<<GP, GL>>) },
      exclude_devices : { None, Some(<<GL>>) },
      include_messages : { None, Some(<<GGA, GSV>>) },
      exclude_messages : { None, Some(<<GGA>>) } ]
    \cup { [NoPatterns EXCEPT ![f] = Some(<<>>)] : f \in DOMAIN NoPatterns }

MakeCli(patterns, window, termeof, termerr) ==
    [ include_devices |-> patterns.include_devices,
      exclude_devices |-> patterns.exclude_devices,
      include_messages |-> patterns.include_messages,
      exclude_messages |-> patterns.exclude_messages,
      start_date |-> window[1],
      end_date |-> window[2],
      terminate_on_eof |-> termeof,
      terminate_on_err |-> termerr ]

\* The command lines of the model: every pattern set with every window, and
\* every setting of --termeof and --termerr with every window.
Cli ==
    { MakeCli(p, w, FALSE, FALSE) : p \in PatternSets, w \in Windows }
    \cup { MakeCli(NoPatterns, w, f[1], f[2]) : w \in Windows, f \in BOOLEAN \X BOOLEAN }

----------------------------------------------------------------------------
(* NMEAFile::new *)

\* create_regex: "(p1)|(p2)|...", and the empty regex for no list.
RECURSIVE JoinPatterns(_, _)
JoinPatterns(result, patterns) ==
    IF patterns = <<>> THEN result
    ELSE JoinPatterns((IF result # <<>> THEN result \o <<"|">> ELSE result)
                          \o <<"(">> \o Head(patterns) \o <<")">>,
                      Tail(patterns))

create_regex(patterns) ==
    IF ~patterns.some THEN <<>> ELSE JoinPatterns(<<>>, patterns.list)

\* binding_default of the include lists, and of the exclude lists.
IncludeDefault == Some(<< <<".", "*">> >>)
ExcludeDefault == Some(<< <<"^", "$">> >>)

\* The list new() compiles: the configured one if there is one, else the default.
PatternsOr(configured, default) == IF configured.some THEN configured ELSE default

IncludeRegex(configured) == create_regex(PatternsOr(configured, IncludeDefault))
ExcludeRegex(configured) == create_regex(PatternsOr(configured, ExcludeDefault))

\* start_timestamp and end_timestamp of a command line whose dates parse.
StartOf(c) == IF c.start_date.given THEN DateTime(c.start_date.date, c.start_date.time)
              ELSE DefaultStart
EndOf(c) == IF c.end_date.given THEN DateTime(c.end_date.date, c.end_date.time)
            ELSE DefaultEnd

\* WindowRejected with the comparison the other way round.
WindowRejectedReversed(c) == Before(StartOf(c), EndOf(c))

\* new() calls exit(-1): a date does not parse, or the window is empty.
DateRejected(c) ==
    \/ c.start_date.given /\ ~c.start_date.valid
    \/ c.end_date.given /\ ~c.end_date.valid

WindowRejected(c) == Before(EndOf(c), StartOf(c))

\* println!("Start time {:?} End time {:?}", ...): a line of stdout that is no input line.
Banner == [line |-> 0, text |-> <<"Start time .. End time ..">>]

NoRead == [read |-> "none", text |-> <<>>, parsed |-> FALSE,
           sentence |-> [sender |-> <<>>, message |-> <<>>, timestamp |-> NoTimestamp]]

Unbuilt == DateTime(0, 0)

\* No sentence has given the clock a time yet.
NotApplied == [kind |-> "none", time |-> 0]

\* Seed with the time at noon: Utc::now() taken whole, not cut to the date.
SeedNow(today) == DateTime(today, Hms(12, 0, 0))

\* The clock NMEAFile::new starts with: today's date (UTC) at 00:00:00.
Seed(today) == DateTime(today, Hms(0, 0, 0))

Init ==
    /\ pc = "main"
    /\ cli \in Cli
    /\ start_timestamp = Unbuilt
    /\ end_timestamp = Unbuilt
    /\ include_devices = <<>>
    /\ exclude_devices = <<>>
    /\ include_messages = <<>>
    /\ exclude_messages = <<>>
    /\ most_recent_timestamp = Unbuilt
    /\ terminate_eof = FALSE
    /\ terminate_err = FALSE
    /\ last = NoRead
    /\ applied = NotApplied
    /\ nread = 0
    /\ output = <<>>
    /\ write_failed = FALSE

\* main: NMEAFile::new exits on a date that does not parse.
NewBadDate ==
    /\ pc = "main"
    /\ DateRejected(cli)
    /\ pc' = "exited"
    /\ UNCHANGED <<cli, nmeaConfig, most_recent_timestamp, last, applied, nread, output,
                   write_failed>>

\* main: NMEAFile::new prints the window and exits when start is after end.
NewBadWindow ==
    /\ pc = "main"
    /\ ~DateRejected(cli)
    /\ WindowRejected(cli)
    /\ pc' = "exited"
    /\ output' = Append(output, Banner)
    /\ UNCHANGED <<cli, nmeaConfig, most_recent_timestamp, last, applied, nread,
                   write_failed>>

\* main: NMEAFile::new returns the NMEAFile, and process() starts to read.
New ==
    /\ pc = "main"
    /\ ~DateRejected(cli)
    /\ ~WindowRejected(cli)
    /\ include_devices' = IncludeRegex(cli.include_devices)
    /\ include_messages' = IncludeRegex(cli.include_messages)
    /\ exclude_devices' = ExcludeRegex(cli.exclude_devices)
    /\ exclude_messages' = ExcludeRegex(cli.exclude_messages)
    /\ \E today \in Today : most_recent_timestamp' = Seed(today)
    /\ start_timestamp' = StartOf(cli)
    /\ end_timestamp' = EndOf(cli)
    /\ output' = Append(output, Banner)
    /\ terminate_eof' = cli.terminate_on_eof
    /\ terminate_err' = cli.terminate_on_err
    /\ pc' = "Reading"
    /\ UNCHANGED <<cli, last, applied, nread, write_failed>>

----------------------------------------------------------------------------
(* The input: lines, and what Nmea0183Base::from_string and classify make   *)
(* of them                                                                  *)

Sentence(sender, message, timestamp) ==
    [sender |-> sender, message |-> message, timestamp |-> timestamp]

\* The times of day of the time-only sentences.
TimesOfDay == { Hms(0, 1, 0), Hms(0, 1, 1), Hms(12, 35, 18), Hms(12, 35, 19) }

\* The timestamps of the full-timestamp sentences.
FullTimes == { WindowStart, DateTime(WindowEnd.date, WindowEnd.time + 1) }

\* The sentence of RmcLine.
RmcSentence == Sentence(GP, RMC, SomeTimestamp(RmcTime))

Sentences ==
    { Sentence(GP, RMC, SomeTimestamp(ts)) : ts \in FullTimes }
    \cup { Sentence(GP, GGA, SomeTime(t)) : t \in TimesOfDay }
    \cup { RmcSentence,
           Sentence(GP, ZDA, SomeTimestamp(WindowEnd)),
           Sentence(GL, RMC, SomeTimestamp(WindowStart)),
           Sentence(GL, GGA, SomeTime(Hms(12, 35, 19))),
           Sentence(GP, GSV, NoTimestamp),
           Sentence(II, GSV, NoTimestamp),
           Sentence(GP, RMC, NoTimestamp),
           Sentence(GP, GGA, NoTimestamp) }

\* What read_line returns with n > 0: a line up to and with its "\n", or the
\* rest of the input when it does not end in "\n".
Lines ==
    { <<RmcLine, "\n">>, <<RmcLine>>, <<AnyLine, "\n">>, <<AnyLine, "\r", "\n">>,
      <<AnyLine, " ">>, <<"\n">> }

\* Nmea0183Base::from_string(buffer): Ok(sentence) or Err.
ParseError == [parsed |-> FALSE, sentence |-> NoRead.sentence]
Parsed(sentence) == [parsed |-> TRUE, sentence |-> sentence]

\* The sentences a line that ends in a carriage return or a blank is parsed as,
\* when it is.
CrSentences ==
    { Sentence(GP, GSV, NoTimestamp), Sentence(GP, ZDA, SomeTimestamp(WindowEnd)) }

\* What the parser may return for a buffer: RmcLine is RmcSentence, and any
\* other text is some sentence or is rejected.
ParseOutcomes(buffer) ==
    IF buffer = <<RmcLine>> THEN { Parsed(RmcSentence) }
    ELSE IF buffer = <<AnyLine>> THEN { ParseError } \cup { Parsed(s) : s \in Sentences }
    ELSE { ParseError } \cup { Parsed(s) : s \in CrSentences }

----------------------------------------------------------------------------
(* NMEAFile::process_line *)

\* StripNewline that keeps the newline.
StripNothing(buffer) == buffer

\* StripNewline as trim_end() would do it: every trailing newline, carriage
\* return and blank is dropped.
RECURSIVE StripTrimEnd(_)
StripTrimEnd(buffer) ==
    IF buffer # <<>> /\ buffer[Len(buffer)] \in { "\n", "\r", " " }
    THEN StripTrimEnd(SubSeq(buffer, 1, Len(buffer) - 1))
    ELSE buffer

\* buffer.pop(): the last character is dropped when it is '\n', kept otherwise.
StripNewline(buffer) ==
    IF buffer # <<>> /\ buffer[Len(buffer)] = "\n"
    THEN SubSeq(buffer, 1, Len(buffer) - 1)
    ELSE buffer

\* Admitted with the exclude matchers left out.
AdmittedIncludeOnly(sentence) ==
    /\ is_match(include_messages, sentence.message)
    /\ is_match(include_devices, sentence.sender)

\* The include and exclude test of a sentence's message type and sender.
Admitted(sentence) ==
    /\ is_match(include_messages, sentence.message)
    /\ ~is_match(exclude_messages, sentence.message)
    /\ is_match(include_devices, sentence.sender)
    /\ ~is_match(exclude_devices, sentence.sender)

\* update_time_only that never adds a day.
update_time_only_same_day(clock, timestamp) == DateTime(clock.date, timestamp)

\* update_time_only that also adds a day when the two times of day are equal.
update_time_only_or_equal(clock, timestamp) ==
    DateTime(IF clock.time >= timestamp THEN AddDays(clock.date, 1) ELSE clock.date,
             timestamp)

\* update_time_only with the comparison turned round: the day is added when
\* the time of day is later, not when it is earlier.
update_time_only_reversed(clock, timestamp) ==
    IF clock.time < timestamp
    THEN DateTime(AddDays(clock.date, 1), timestamp)
    ELSE DateTime(clock.date, timestamp)

\* update_time_only: the clock after a time of day, a day later when the
\* clock's time of day is after it.
update_time_only(clock, timestamp) ==
    LET current_date == clock.date
        current_time == clock.time
    IN  DateTime(IF current_time > timestamp THEN AddDays(current_date, 1) ELSE current_date,
                 timestamp)

\* The match on classify(nmea_base): which update the sentence's type gets.
HasTime(sentence) == sentence.message \in TimeOnlyTypes \cup FullTypes

\* timestamp().expect(..) panics: the sentence's type has a time and timestamp() has none.
Panics(sentence) == HasTime(sentence) /\ ~sentence.timestamp.some

\* ClockAfter with the RMC and ZDA arms keeping a clock that is later.
ClockAfterNeverBack(clock, sentence) ==
    IF sentence.message \in TimeOnlyTypes
    THEN update_time_only(clock, sentence.timestamp.time)
    ELSE IF sentence.message \in FullTypes
    THEN IF Before(sentence.timestamp, clock) THEN clock
         ELSE DateTime(sentence.timestamp.date, sentence.timestamp.time)
    ELSE clock

\* most_recent_timestamp after the match on classify(nmea_base).
ClockAfter(clock, sentence) ==
    IF sentence.message \in TimeOnlyTypes
    THEN update_time_only(clock, sentence.timestamp.time)
    ELSE IF sentence.message \in FullTypes
    THEN DateTime(sentence.timestamp.date, sentence.timestamp.time)
    ELSE clock

\* Which arm of the match set the clock last, and the time of day it set.
AppliedAfter(was, sentence) ==
    IF sentence.message \in TimeOnlyTypes
    THEN [kind |-> "time", time |-> sentence.timestamp.time]
    ELSE IF sentence.message \in FullTypes
    THEN [kind |-> "full", time |-> sentence.timestamp.time]
    ELSE was

\* InWindow with the end left out of the window.
InWindowEndExclusive(clock) ==
    /\ AtOrBefore(start_timestamp, clock)
    /\ Before(clock, end_timestamp)

\* start_timestamp <= clock <= end_timestamp
InWindow(clock) ==
    /\ AtOrBefore(start_timestamp, clock)
    /\ AtOrBefore(clock, end_timestamp)

\* process_line(line), when the parser's answer for the stripped line is result.
\* println!("{buffer}"): the line goes to stdout, or the write returns an error
\* and println! panics, whatever terminate_err is.
println(buffer, written) ==
    IF written
    THEN /\ output' = Append(output, [line |-> nread', text |-> buffer])
         /\ write_failed' = FALSE
         /\ pc' = "Reading"
    ELSE /\ output' = output
         /\ write_failed' = TRUE
         /\ pc' = "panicked"

\* process_line that keeps the new clock only when it prints the line: a
\* sentence outside the window leaves the clock as it was.
process_line_clock_if_emitted(line, result) ==
    LET buffer == StripNewline(line)
        sentence == result.sentence
    IN  IF Len(buffer) > 0 /\ result.parsed /\ Admitted(sentence)
        THEN IF Panics(sentence)
             THEN /\ pc' = "panicked"
                  /\ UNCHANGED <<most_recent_timestamp, applied, output, write_failed>>
             ELSE IF InWindow(ClockAfter(most_recent_timestamp, sentence))
             THEN /\ most_recent_timestamp' = ClockAfter(most_recent_timestamp, sentence)
                  /\ applied' = AppliedAfter(applied, sentence)
                  /\ \E written \in BOOLEAN : println(buffer, written)
             ELSE /\ pc' = "Reading"
                  /\ UNCHANGED <<most_recent_timestamp, applied, output, write_failed>>
        ELSE /\ pc' = "Reading"
             /\ UNCHANGED <<most_recent_timestamp, applied, output, write_failed>>

\* process_line that sets the clock before it asks whether the sentence is
\* admitted: a sentence of an excluded device moves the clock.
process_line_clock_first(line, result) ==
    LET buffer == StripNewline(line)
        sentence == result.sentence
    IN  IF Len(buffer) > 0 /\ result.parsed
        THEN IF Panics(sentence)
             THEN /\ pc' = "panicked"
                  /\ UNCHANGED <<most_recent_timestamp, applied, output, write_failed>>
             ELSE /\ most_recent_timestamp' = ClockAfter(most_recent_timestamp, sentence)
                  /\ applied' = AppliedAfter(applied, sentence)
                  /\ IF Admitted(sentence) /\ InWindow(most_recent_timestamp')
                     THEN \E written \in BOOLEAN : println(buffer, written)
                     ELSE /\ pc' = "Reading"
                          /\ UNCHANGED <<output, write_failed>>
        ELSE /\ pc' = "Reading"
             /\ UNCHANGED <<most_recent_timestamp, applied, output, write_failed>>

process_line(line, result) ==
    LET buffer == StripNewline(line)
        sentence == result.sentence
    IN  IF Len(buffer) > 0 /\ result.parsed /\ Admitted(sentence)
        THEN IF Panics(sentence)
             THEN /\ pc' = "panicked"
                  /\ UNCHANGED <<most_recent_timestamp, applied, output, write_failed>>
             ELSE /\ most_recent_timestamp' = ClockAfter(most_recent_timestamp, sentence)
                  /\ applied' = AppliedAfter(applied, sentence)
                  /\ IF InWindow(most_recent_timestamp')
                     THEN \E written \in BOOLEAN : println(buffer, written)
                     ELSE /\ pc' = "Reading"
                          /\ UNCHANGED <<output, write_failed>>
        ELSE /\ pc' = "Reading"
             /\ UNCHANGED <<most_recent_timestamp, applied, output, write_failed>>

----------------------------------------------------------------------------
(* NMEAFile::process: one turn of the loop for each result of read_line *)

\* read_line returns Err(e).
ReadError ==
    /\ pc = "Reading"
    /\ pc' = IF terminate_err THEN "Halted" ELSE "Reading"
    /\ last' = [NoRead EXCEPT !.read = "error"]
    /\ UNCHANGED <<cli, nmeaConfig, most_recent_timestamp, applied, nread, output,
                   write_failed>>

\* ReadEof without buffer.clear(): the buffer still holds the line before, and
\* process_line is given that line again.
ReadEofNoClear ==
    /\ pc = "Reading"
    /\ last' = [NoRead EXCEPT !.read = "eof"]
    /\ nread' = nread
    /\ IF terminate_eof
       THEN pc' = "Halted" /\ UNCHANGED <<most_recent_timestamp, applied, output,
                                          write_failed>>
       ELSE process_line(last.text, [parsed |-> last.parsed, sentence |-> last.sentence])
    /\ UNCHANGED <<cli, nmeaConfig>>

\* read_line returns Ok(0): the end of the input.
ReadEof ==
    /\ pc = "Reading"
    /\ last' = [NoRead EXCEPT !.read = "eof"]
    /\ nread' = nread
    /\ IF terminate_eof
       THEN pc' = "Halted" /\ UNCHANGED <<most_recent_timestamp, applied, output,
                                          write_failed>>
       ELSE process_line(<<>>, ParseError)
    /\ UNCHANGED <<cli, nmeaConfig>>

\* ReadLine without buffer.clear(): read_line appends the line to the last one.
ReadLineNoClear ==
    /\ pc = "Reading"
    /\ nread < MaxReads
    /\ nread' = nread + 1
    /\ \E line \in Lines :
         LET buffer == last.text \o line
         IN  \E result \in ParseOutcomes(StripNewline(buffer)) :
                /\ last' = [read |-> "line", text |-> line, parsed |-> result.parsed,
                            sentence |-> result.sentence]
                /\ process_line(buffer, result)
    /\ UNCHANGED <<cli, nmeaConfig>>

\* read_line returns Ok(n), n > 0: a line.
ReadLine ==
    /\ pc = "Reading"
    /\ nread < MaxReads
    /\ nread' = nread + 1
    /\ \E line \in Lines :
         \E result \in IF StripNewline(line) = <<>> THEN { ParseError }
                       ELSE ParseOutcomes(StripNewline(line)) :
            /\ last' = [read |-> "line", text |-> line, parsed |-> result.parsed,
                        sentence |-> result.sentence]
            /\ process_line(line, result)
    /\ UNCHANGED <<cli, nmeaConfig>>

Next ==
    \/ NewBadDate
    \/ NewBadWindow
    \/ New
    \/ ReadError
    \/ ReadEof
    \/ ReadLine

Spec == Init /\ [][Next]_vars

----------------------------------------------------------------------------
(* What the properties below speak of *)

\* The last turn of the loop read a line and gave it to process_line.
LineRead == last.read = "line"

\* process_line returned from the line it was given.
LineDone == LineRead /\ pc = "Reading"

\* The line just read was printed.
Emitted == LineRead /\ output # <<>> /\ output[Len(output)].line = nread

\* The line just read has a sentence in it: it is not empty once its newline
\* is dropped, and the parser took it.
SentenceRead == LineRead /\ last.text \notin { <<>>, <<"\n">> } /\ last.parsed

\* No --devices, --xdevices, --messages, --xmessages; no --start, --end.
NoLists ==
    /\ ~cli.include_devices.some /\ ~cli.exclude_devices.some
    /\ ~cli.include_messages.some /\ ~cli.exclude_messages.some
DefaultWindow == ~cli.start_date.given /\ ~cli.end_date.given

----------------------------------------------------------------------------
(* C1: with no --start and --end and no include or exclude list, the line  *)
(* RmcLine, of 1994-03-23T12:35:19Z, sets the clock to that timestamp and   *)
(* is printed as it is.                                                     *)
C1_RmcLineEmittedByDefault ==
    (NoLists /\ DefaultWindow /\ LineDone /\ last.text \in { <<RmcLine, "\n">>, <<RmcLine>> })
    => /\ most_recent_timestamp = RmcTime
       /\ Emitted
       /\ output[Len(output)].text = <<RmcLine>>

----------------------------------------------------------------------------
(* C2: a sentence whose sender matches the device-exclude matcher, or whose *)
(* message type matches the message-exclude matcher, is not printed, and a  *)
(* printed sentence matches both include matchers and neither exclude       *)
(* matcher, whatever the lists and the window are.                          *)
C2_ExcludeWins ==
    SentenceRead =>
        /\ ( \/ is_match(exclude_devices, last.sentence.sender)
             \/ is_match(exclude_messages, last.sentence.message) ) => ~Emitted
        /\ Emitted => /\ is_match(include_devices, last.sentence.sender)
                      /\ ~is_match(exclude_devices, last.sentence.sender)
                      /\ is_match(include_messages, last.sentence.message)
                      /\ ~is_match(exclude_messages, last.sentence.message)

\* A sentence of an excluded sender that both include matchers take, that the
\* message-exclude matcher does not take, with the clock inside the window.
C2_Witness ==
    /\ SentenceRead /\ LineDone
    /\ cli.include_devices.some /\ cli.exclude_devices.some
    /\ is_match(exclude_devices, last.sentence.sender)
    /\ is_match(include_devices, last.sentence.sender)
    /\ is_match(include_messages, last.sentence.message)
    /\ ~is_match(exclude_messages, last.sentence.message)
    /\ AtOrBefore(start_timestamp, most_recent_timestamp)
    /\ AtOrBefore(most_recent_timestamp, end_timestamp)
    /\ ~Emitted

----------------------------------------------------------------------------
(* C3: an admitted sentence is printed exactly when, after its update of    *)
(* the clock, start_timestamp <= most_recent_timestamp <= end_timestamp;    *)
(* a clock equal to either bound is inside.                                 *)
C3_WindowInclusive ==
    (SentenceRead /\ LineDone /\ Admitted(last.sentence)) =>
        ( Emitted <=> /\ ~Before(most_recent_timestamp, start_timestamp)
                      /\ ~Before(end_timestamp, most_recent_timestamp) )

\* A printed sentence whose clock is the end of a configured window that is
\* longer than an instant.
C3_Witness ==
    /\ SentenceRead /\ LineDone /\ Admitted(last.sentence)
    /\ cli.end_date.given
    /\ start_timestamp # end_timestamp
    /\ most_recent_timestamp = end_timestamp
    /\ Emitted

----------------------------------------------------------------------------
(* The steps of process_line that set the clock *)

\* This step reads a line, and process_line returns from it.
LineStep == pc = "Reading" /\ nread' = nread + 1 /\ pc' = "Reading"

\* This step reads an admitted sentence.
AdmittedStep == LineStep /\ SentenceRead' /\ Admitted(last'.sentence)

\* This step reads an admitted sentence that has a time of day only.
TimeOnlyStep == AdmittedStep /\ last'.sentence.message \in TimeOnlyTypes

\* This step reads an admitted sentence that has a date and a time.
FullStep == AdmittedStep /\ last'.sentence.message \in FullTypes

----------------------------------------------------------------------------
(* C4: when an admitted time-only sentence follows an admitted time-only    *)
(* sentence, the date of the clock stays as it is if the new time of day is *)
(* later than the one before, and is one day later if the new time of day   *)
(* is earlier.                                                              *)
C4_RolloverOnce ==
    [][ (TimeOnlyStep /\ applied.kind = "time") =>
            LET t == last'.sentence.timestamp.time
                p == applied.time
            IN  /\ t > p => most_recent_timestamp'.date = most_recent_timestamp.date
                /\ t < p => most_recent_timestamp'.date = most_recent_timestamp.date + 1
      ]_vars

\* A run that admits no sentence with a date, whose clock is past the day it
\* started on.
C4_Witness ==
    /\ cli.include_messages = Some(<<GGA, GSV>>)
    /\ LineDone
    /\ applied.kind = "time"
    /\ most_recent_timestamp.date \notin Today

----------------------------------------------------------------------------
(* C5: update_time_only(t) on a clock of date d and time c gives d + 1 day  *)
(* and t when c > t, and d and t when c <= t, whichever sentence the clock  *)
(* came from.                                                               *)
C5_UpdateTimeOnly ==
    [][ TimeOnlyStep =>
            LET t == last'.sentence.timestamp.time
                d == most_recent_timestamp.date
                c == most_recent_timestamp.time
            IN  most_recent_timestamp' = [date |-> IF c > t THEN d + 1 ELSE d, time |-> t]
      ]_vars

\* 1994-03-23T12:35:19Z followed by 00:01:00: the clock is 1994-03-24T00:01:00Z.
C5_Witness ==
    /\ LineDone
    /\ applied.kind = "time"
    /\ most_recent_timestamp = Rfc3339(1994, 3, 24, 0, 1, 0)

----------------------------------------------------------------------------
(* C6: an admitted RMC or ZDA sentence sets the clock to its timestamp,     *)
(* whatever the clock was, also when the clock was later.                   *)
C6_FullOverwrites ==
    [][ FullStep =>
            most_recent_timestamp' = [date |-> last'.sentence.timestamp.date,
                                      time |-> last'.sentence.timestamp.time]
      ]_vars

\* The first line is RmcLine: the clock goes from today back to 1994.
C6_Witness ==
    /\ LineDone /\ nread = 1
    /\ last.sentence = RmcSentence
    /\ Admitted(last.sentence)
    /\ most_recent_timestamp = RmcTime
    /\ \A today \in Today : Before(RmcTime, DateTime(today, 0))

----------------------------------------------------------------------------
(* C7: a line that is empty once its newline is dropped, or that the parser *)
(* rejects, is not printed and leaves the clock as it is; so does a read of *)
(* no bytes that does not end the loop.                                     *)
C7_RejectedLineIsNoOp ==
    [][ ( \/ /\ pc = "Reading" /\ nread' = nread + 1
             /\ (last'.text = <<"\n">> \/ ~last'.parsed)
          \/ /\ pc = "Reading" /\ last'.read = "eof" /\ ~terminate_eof )
        => /\ output' = output
           /\ most_recent_timestamp' = most_recent_timestamp
           /\ pc' = "Reading"
      ]_vars

\* A rejected line, read when every sentence is admitted and the clock,
\* which an earlier sentence has set, is inside the window.
C7_Witness ==
    /\ LineDone /\ ~last.parsed /\ last.text = <<AnyLine, "\n">>
    /\ NoLists
    /\ applied.kind # "none"
    /\ ~Before(most_recent_timestamp, start_timestamp)
    /\ ~Before(end_timestamp, most_recent_timestamp)
    /\ ~Emitted

----------------------------------------------------------------------------
(* C8: the lines process_line prints are a subsequence of the lines read,   *)
(* in the order they were read: a turn of the loop prints nothing, or       *)
(* prints the line it has just read, without its newline, once.             *)
C8_OutputInOrder ==
    /\ [][ \/ pc = "main"
           \/ output' = output
           \/ /\ pc = "Reading" /\ nread' = nread + 1 /\ last'.read = "line"
              /\ \E text \in { last'.text, SubSeq(last'.text, 1, Len(last'.text) - 1) } :
                    /\ last'.text \in { text, text \o <<"\n">> }
                    /\ output' = Append(output, [line |-> nread', text |-> text])
         ]_vars
    /\ [](\A i \in 1..Len(output) :
             /\ output[i].line <= nread
             /\ \A j \in 1..Len(output) : i < j => output[i].line < output[j].line)

\* The first and the third line read were printed, the second was not.
C8_Witness ==
    /\ Len(output) = 3
    /\ output[2].line = 1
    /\ output[3].line = 3
    /\ output[2].text # output[3].text

----------------------------------------------------------------------------
----------------------------------------------------------------------------
(* C10: for each of the four lists, an empty list gives a matcher that      *)
(* takes the same strings as no list does.                                  *)
Tokens == { GP, GL, II, RMC, ZDA, GGA, GSV }

SameMatcher(re, default) ==
    \A s \in Tokens : is_match(re, s) <=> is_match(create_regex(default), s)

C10_EmptyListIsDefault ==
    pc = "Reading" =>
        /\ cli.include_devices = Some(<<>>) => SameMatcher(include_devices, IncludeDefault)
        /\ cli.include_messages = Some(<<>>) => SameMatcher(include_messages, IncludeDefault)
        /\ cli.exclude_devices = Some(<<>>) => SameMatcher(exclude_devices, ExcludeDefault)
        /\ cli.exclude_messages = Some(<<>>) => SameMatcher(exclude_messages, ExcludeDefault)

----------------------------------------------------------------------------
\* What a line is without the one newline at its end, if it has one.
WithoutOneNewline(text) ==
    IF text # <<>> /\ text[Len(text)] = "\n" THEN SubSeq(text, 1, Len(text) - 1) ELSE text

(* C11: a printed line is the line read without the one newline at its end, *)
(* if it has one, and is the line read otherwise: a carriage return or a    *)
(* blank before the newline is printed, and of two newlines at the end the  *)
(* first is kept.                                                           *)
C11_EmittedVerbatim ==
    /\ [][ (pc = "Reading" /\ output' # output)
           => /\ last'.read = "line"
              /\ output' = Append(output, [line |-> nread', text |-> WithoutOneNewline(last'.text)])
              /\ last'.text \in { output'[Len(output')].text,
                                  output'[Len(output')].text \o <<"\n">> }
         ]_vars
    /\ [](/\ StripNewline(<<AnyLine, "\n", "\n">>) = <<AnyLine, "\n">>
          /\ StripNewline(<<AnyLine, "\r", "\n">>) = <<AnyLine, "\r">>
          /\ StripNewline(<<AnyLine, " ", "\n">>) = <<AnyLine, " ">>
          /\ StripNewline(<<AnyLine, " ">>) = <<AnyLine, " ">>)

\* Three lines were printed: one that ended in "\r\n", one that ended in a
\* blank and had no newline, and one that ended in a newline.
C11_Witness ==
    /\ pc = "Reading"
    /\ Len(output) = 4
    /\ output[2] = [line |-> 1, text |-> <<AnyLine, "\r">>]
    /\ output[3] = [line |-> 2, text |-> <<AnyLine, " ">>]
    /\ output[4] = [line |-> 3, text |-> <<AnyLine>>]
    /\ last.text = <<AnyLine, "\n">>

----------------------------------------------------------------------------
(* C12: an admitted sentence that has a time sets the clock also when the   *)
(* line is not printed, the new clock being outside the window; and an      *)
(* admitted sentence that has no time is printed exactly when the clock     *)
(* the sentences before it have left, printed or not, is inside the window. *)
C12_ClockSetWhenNotEmitted ==
    /\ [][ (AdmittedStep /\ HasTime(last'.sentence) /\ output' = output)
           => /\ most_recent_timestamp'.time = last'.sentence.timestamp.time
              /\ last'.sentence.message \in FullTypes
                 => most_recent_timestamp'.date = last'.sentence.timestamp.date
              /\ last'.sentence.message \in TimeOnlyTypes
                 => most_recent_timestamp'.date \in { most_recent_timestamp.date,
                                                      most_recent_timestamp.date + 1 }
              /\ applied'.time = last'.sentence.timestamp.time
              /\ \/ Before(most_recent_timestamp', start_timestamp)
                 \/ Before(end_timestamp, most_recent_timestamp')
         ]_vars
    /\ [][ (AdmittedStep /\ ~HasTime(last'.sentence))
           => /\ most_recent_timestamp' = most_recent_timestamp
              /\ output' # output <=> /\ ~Before(most_recent_timestamp, start_timestamp)
                                      /\ ~Before(end_timestamp, most_recent_timestamp)
         ]_vars

\* RmcLine, of 1994, was read and not printed; the sentence after it, which
\* has no time, is not printed either, the clock being before the start.
C12_Witness ==
    /\ DefaultWindow /\ NoLists
    /\ LineDone /\ nread = 2
    /\ last.sentence = Sentence(GP, GSV, NoTimestamp)
    /\ Admitted(last.sentence)
    /\ applied.kind = "full"
    /\ most_recent_timestamp = RmcTime
    /\ Len(output) = 1

----------------------------------------------------------------------------
(* C13: a sentence that is not admitted, and an admitted sentence of a type *)
(* that has no time, leave the clock as it is; and once new() has returned, *)
(* no step changes start_timestamp, end_timestamp, the four matchers,       *)
(* terminate_eof or terminate_err.                                          *)
C13_ClockAndConfigKept ==
    /\ [][ ( /\ pc = "Reading" /\ nread' = nread + 1 /\ SentenceRead'
             /\ (~Admitted(last'.sentence) \/ ~HasTime(last'.sentence)) )
           => /\ most_recent_timestamp' = most_recent_timestamp
              /\ applied' = applied
         ]_vars
    /\ [][ pc # "main"
           => /\ start_timestamp' = start_timestamp
              /\ end_timestamp' = end_timestamp
              /\ include_devices' = include_devices
              /\ exclude_devices' = exclude_devices
              /\ include_messages' = include_messages
              /\ exclude_messages' = exclude_messages
              /\ terminate_eof' = terminate_eof
              /\ terminate_err' = terminate_err
         ]_vars

\* A sentence with a date and a time that is not admitted was read after a
\* sentence had set the clock, and the clock is not that of the sentence.
C13_Witness ==
    /\ LineDone /\ SentenceRead
    /\ last.sentence = Sentence(GL, RMC, SomeTimestamp(WindowStart))
    /\ ~Admitted(last.sentence)
    /\ applied.kind = "time"
    /\ most_recent_timestamp # WindowStart

----------------------------------------------------------------------------
(* C14: a read of no bytes ends the loop exactly when terminate_eof is set, *)
(* a read error ends the loop exactly when terminate_err is set, and after  *)
(* every other read, a line among them, the loop is reading again; a read   *)
(* error gives process_line no line: the clock, the output and the count of *)
(* lines stay as they are.                                                  *)
C14_LoopTransitions ==
    [][ pc = "Reading"
        => /\ last'.read = "eof"
              => pc' = (IF terminate_eof THEN "Halted" ELSE "Reading")
           /\ last'.read = "error"
              => /\ pc' = (IF terminate_err THEN "Halted" ELSE "Reading")
                 /\ UNCHANGED <<most_recent_timestamp, applied, nread, output>>
           /\ last'.read = "line"
              => pc' = "Reading"
      ]_vars

----------------------------------------------------------------------------
(* An input that has an end and no read error: read_line returns lines,    *)
(* MaxReads of them at most, and Ok(0); the loop goes on to its next read.  *)
NextFinite ==
    \/ NewBadDate
    \/ NewBadWindow
    \/ New
    \/ ReadEof
    \/ ReadLine

FiniteSpec == Init /\ [][NextFinite]_vars /\ WF_vars(NextFinite)

(* C15: with terminate_eof set and an input that has an end and no read     *)
(* error, the loop comes to Halted; every read that returns a line gives    *)
(* that line, once, to process_line, in the order read; and nothing is read *)
(* or printed after Halted.                                                 *)
C15_HaltsAtEof ==
    /\ (pc = "Reading" /\ terminate_eof) ~> (pc = "Halted")
    /\ [][ (pc = "Reading" /\ last'.read = "line")
           => /\ nread' = nread + 1
              /\ Len(output') <= Len(output) + 1 ]_vars
    /\ [][ pc # "Halted" ]_vars

----------------------------------------------------------------------------
(* C16: a write to stdout that fails is treated as a read error is: with    *)
(* terminate_err not set the loop is reading again, and with terminate_err  *)
(* set the run ends.                                                        *)
C16_WriteErrorPolicy ==
    write_failed => IF terminate_err
                    THEN pc \in { "Halted", "panicked" }
                    ELSE pc = "Reading"

----------------------------------------------------------------------------
\* This step gives process_line an admitted sentence that has a time of day
\* only; the write of the line, if there is one, may fail.
TimeOnlyUpdate ==
    /\ pc = "Reading" /\ nread' = nread + 1
    /\ SentenceRead' /\ Admitted(last'.sentence)
    /\ last'.sentence.message \in TimeOnlyTypes
    /\ last'.sentence.timestamp.some

(* C17: a sentence with a time of day only never moves the clock back: the  *)
(* clock after it is the clock before it or later, and its date is the date *)
(* before or the day after.                                                 *)
C17_TimeOnlyNeverBack ==
    [][ TimeOnlyUpdate
        => /\ AtOrBefore(most_recent_timestamp, most_recent_timestamp')
           /\ most_recent_timestamp'.date \in { most_recent_timestamp.date,
                                                AddDays(most_recent_timestamp.date, 1) }
      ]_vars

\* The first sentence left the clock on 2024-06-01 past 00:01:00; the second,
\* with the time of day 00:01:00 only, has put it on the next day.
C17_Witness ==
    /\ LineDone /\ nread = 2
    /\ last.sentence = Sentence(GP, GGA, SomeTime(Hms(0, 1, 0)))
    /\ Admitted(last.sentence)
    /\ most_recent_timestamp = DateTime(AddDays(WindowStart.date, 1), Hms(0, 1, 0))
    /\ Emitted

----------------------------------------------------------------------------
(* C18: with terminate_eof not set, a read of no bytes leaves the loop      *)
(* reading and is nothing to process_line: the output, the clock and the    *)
(* count of lines are after it what they were before it, so the output      *)
(* stays what it was when the input came to its end.                        *)
C18_EofWithoutTerminate ==
    /\ [][ (pc = "Reading" /\ ~terminate_eof /\ last'.read = "eof")
           => /\ pc' = "Reading"
              /\ UNCHANGED <<output, most_recent_timestamp, applied, nread, write_failed>>
         ]_vars
    /\ []((last.read = "eof" /\ ~terminate_eof) => pc = "Reading")

\* The input came to its end after a line that was printed; the loop reads on.
C18_Witness ==
    /\ pc = "Reading" /\ ~terminate_eof
    /\ last.read = "eof"
    /\ nread >= 1
    /\ output[Len(output)].line = nread

----------------------------------------------------------------------------
(* C19: the clock starts at 00:00:00 of today, so the first admitted        *)
(* sentence that sets it, when it has a time of day t only, adds no day:    *)
(* the clock becomes today's date and t, whatever t is.                     *)
C19_FirstTimeOnlyKeepsSeedDate ==
    /\ [][ (TimeOnlyUpdate /\ applied.kind = "none")
           => /\ most_recent_timestamp.date \in Today
              /\ most_recent_timestamp' = [date |-> most_recent_timestamp.date,
                                           time |-> last'.sentence.timestamp.time]
         ]_vars
    /\ []((pc = "Reading" /\ applied.kind = "none")
          => most_recent_timestamp.time = Hms(0, 0, 0))

\* The first line read is the first to set the clock: 00:01:00 of today.
C19_Witness ==
    /\ LineDone /\ nread = 1
    /\ last.sentence = Sentence(GP, GGA, SomeTime(Hms(0, 1, 0)))
    /\ Admitted(last.sentence)
    /\ applied = [kind |-> "time", time |-> Hms(0, 1, 0)]
    /\ most_recent_timestamp.date \in Today
    /\ most_recent_timestamp.time = Hms(0, 1, 0)

============================================================================
